---- MODULE Spec2Model ----
(***************************************************************************)
(* Model of src/main.py: the CSV loader with its process-wide cache        *)
(* (load_dataset), the per-row normalisation, and the query handlers       *)
(* summary, by_country, by_genre, by_year and search.                      *)
(*                                                                         *)
(* Conventions.                                                            *)
(*  - A Python str is a sequence of one-character strings.                 *)
(*  - An Optional value is a sequence of length <= 1: None is << >> and a   *)
(*    present value v is <<v>>.                                            *)
(*  - A CSV text is the sequence of the dicts csv.DictReader yields for it; *)
(*    a column a row lacks is None.  The columns date_added, rating and    *)
(*    duration are passed through by the code and read by no operation     *)
(*    modelled here; they are left out of the rows.                        *)
(***************************************************************************)
EXTENDS Integers, Sequences, FiniteSets, TLC

VARIABLES
    cache_rows,   \* _cache_rows: None, or the cached list of rows
    localExists,  \* environment: os.path.exists(local_path)
    fileText,     \* environment: the CSV text of the local file
    pc,           \* per thread: position inside load_dataset
    csv_text,     \* per thread: local csv_text (Optional)
    last_err,     \* per thread: local last_err (Optional)
    urlIdx,       \* per thread: index of the next url of the for loop
    attempts,     \* per thread (history): the fetches of this call, in order
    usedLocal,    \* per thread (history): this call read the local file
    ret,          \* per thread: outcome of the last finished call
    calls,        \* per thread: number of calls started
    nAssign,      \* history: number of executions of line 109
    result        \* outcome of the last query handler

vars == <<cache_rows, localExists, fileText, pc, csv_text, last_err, urlIdx,
          attempts, usedLocal, ret, calls, nAssign, result>>

None == << >>
Some(v) == <<v>>

\* ------------------------------------------------------------------ bounds
MaxRows == 3
MaxYearLen == 2
LongExtra == 1
MaxCalls == 2

\* ------------------------------------------------------- program constants
NUrls == 3
SearchCap == 25
CountryTopMax == 50
GenreTopMax == 100

\* ------------------------------------------------------------- str methods
Whitespace == {" ", "\t"}
LowerLetters == <<"a","b","c","d","e","f","g","h","i","j","k","l","m",
                  "n","o","p","q","r","s","t","u","v","w","x","y","z">>
UpperLetters == <<"A","B","C","D","E","F","G","H","I","J","K","L","M",
                  "N","O","P","Q","R","S","T","U","V","W","X","Y","Z">>
DigitChars == <<"0","1","2","3","4","5","6","7","8","9">>

IndexIn(c, tab) == IF \E i \in 1..Len(tab) : tab[i] = c
                   THEN CHOOSE i \in 1..Len(tab) : tab[i] = c
                   ELSE 0

\* the characters of the texts and arguments below
Chars == {LowerLetters[i] : i \in 1..26} \cup {UpperLetters[i] : i \in 1..26}
         \cup {DigitChars[i] : i \in 1..10} \cup {" ", "\t", ",", "-", "+", "_"}
UpperTable == [c \in Chars |-> IF IndexIn(c, LowerLetters) > 0
                               THEN UpperLetters[IndexIn(c, LowerLetters)] ELSE c]
LowerTable == [c \in Chars |-> IF IndexIn(c, UpperLetters) > 0
                               THEN LowerLetters[IndexIn(c, UpperLetters)] ELSE c]
UpperChar(c) == UpperTable[c]
LowerChar(c) == LowerTable[c]

\* str.upper() and str.lower()
Upper(s) == [i \in 1..Len(s) |-> UpperChar(s[i])]
Lower(s) == [i \in 1..Len(s) |-> LowerChar(s[i])]

RECURSIVE LStrip(_)
LStrip(s) == IF s # << >> /\ Head(s) \in Whitespace THEN LStrip(Tail(s)) ELSE s
RECURSIVE RStrip(_)
RStrip(s) == IF s # << >> /\ s[Len(s)] \in Whitespace
             THEN RStrip(SubSeq(s, 1, Len(s) - 1)) ELSE s
\* str.strip()
Strip(s) == RStrip(LStrip(s))

\* sub in s
Contains(s, sub) ==
    \E i \in 0..(Len(s) - Len(sub)) : SubSeq(s, i + 1, i + Len(sub)) = sub

\* " ".join(parts)
RECURSIVE JoinSpace(_)
JoinSpace(parts) ==
    IF parts = << >> THEN << >>
    ELSE IF Len(parts) = 1 THEN parts[1]
    ELSE parts[1] \o <<" ">> \o JoinSpace(Tail(parts))

\* s.split(',')
RECURSIVE SplitComma(_)
SplitComma(s) ==
    IF \A i \in 1..Len(s) : s[i] # ","
    THEN <<s>>
    ELSE LET k == CHOOSE i \in 1..Len(s) :
                      s[i] = "," /\ \A j \in 1..(i - 1) : s[j] # ","
         IN <<SubSeq(s, 1, k - 1)>> \o SplitComma(SubSeq(s, k + 1, Len(s)))

\* (x or "") for a value of a DictReader row
OrEmpty(opt) == IF opt = None THEN << >> ELSE opt[1]

\* ---------------------------------------------------------------- int(str)
DigitSet == {DigitChars[i] : i \in 1..10}
IsDigit(c) == c \in DigitSet

RECURSIVE DigitsValue(_, _)
DigitsValue(s, acc) ==
    IF s = << >> THEN acc
    ELSE IF Head(s) = "_" THEN DigitsValue(Tail(s), acc)
    ELSE DigitsValue(Tail(s), 10 * acc + (IndexIn(Head(s), DigitChars) - 1))

\* digits, with single underscores allowed between digits
ValidDigits(s) ==
    /\ s # << >>
    /\ IsDigit(s[1]) /\ IsDigit(s[Len(s)])
    /\ \A i \in 1..Len(s) : IsDigit(s[i]) \/ s[i] = "_"
    /\ \A i \in 1..(Len(s) - 1) : ~(s[i] = "_" /\ s[i + 1] = "_")

\* int(s) for a str s: Some(value), or None where int raises ValueError
ParseInt(s) ==
    LET t == Strip(s)
        signed == t # << >> /\ t[1] \in {"+", "-"}
        body == IF signed THEN Tail(t) ELSE t
    IN IF ~ValidDigits(body) THEN None
       ELSE IF signed /\ t[1] = "-" THEN Some(0 - DigitsValue(body, 0))
       ELSE Some(DigitsValue(body, 0))

\* ----------------------------------------------------------- normalisation
\* _split_list(val)
RECURSIVE StripNonEmpty(_)
StripNonEmpty(parts) ==
    IF parts = << >> THEN << >>
    ELSE IF Strip(Head(parts)) # << >>
         THEN <<Strip(Head(parts))>> \o StripNonEmpty(Tail(parts))
         ELSE StripNonEmpty(Tail(parts))

split_list(val) == IF val = << >> THEN << >> ELSE StripNonEmpty(SplitComma(val))

\* variant of ReleaseYear without the trailing "or None": a zero stays
ReleaseYearZeroKept(raw) ==
    IF raw = None \/ raw[1] = << >> THEN Some(0) ELSE ParseInt(raw[1])

\* release_year = int(r.get("release_year") or 0) or None, None on an exception
ReleaseYear(raw) ==
    IF raw = None \/ raw[1] = << >> THEN None
    ELSE LET v == ParseInt(raw[1])
         IN IF v = None THEN None
            ELSE IF v[1] = 0 THEN None
            ELSE v

\* the body of the loop over the reader: one raw row to one cached row
NormalizeRow(r) ==
    [show_id        |-> OrEmpty(r.show_id),
     type           |-> Strip(OrEmpty(r.type)),
     title          |-> Strip(OrEmpty(r.title)),
     director       |-> OrEmpty(r.director),
     cast           |-> OrEmpty(r.cast),
     country        |-> OrEmpty(r.country),
     release_year   |-> ReleaseYear(r.release_year),
     listed_in      |-> OrEmpty(r.listed_in),
     description    |-> OrEmpty(r.description),
     countries_list |-> split_list(OrEmpty(r.country)),
     genres_list    |-> split_list(OrEmpty(r.listed_in))]

\* rows = [...]: every row of the reader, in source order
ParseRows(text) == [i \in 1..Len(text) |-> NormalizeRow(text[i])]

\* ------------------------------------------------------------------ queries
sMOVIE == <<"M","O","V","I","E">>
sTVSHOW == <<"T","V"," ","S","H","O","W">>

RECURSIVE MinOf(_)
MinOf(xs) == IF Len(xs) = 1 THEN xs[1]
             ELSE LET m == MinOf(Tail(xs)) IN IF m < xs[1] THEN m ELSE xs[1]
RECURSIVE MaxOf(_)
MaxOf(xs) == IF Len(xs) = 1 THEN xs[1]
             ELSE LET m == MaxOf(Tail(xs)) IN IF m > xs[1] THEN m ELSE xs[1]

RECURSIVE PresentYears(_)
PresentYears(rows) ==
    IF rows = << >> THEN << >>
    ELSE IF Head(rows).release_year # None
         THEN <<Head(rows).release_year[1]>> \o PresentYears(Tail(rows))
         ELSE PresentYears(Tail(rows))

CountType(rows, T) == Cardinality({i \in 1..Len(rows) : Upper(rows[i].type) = T})

\* variant of summary that compares the kind without .upper()
summaryNoUpper(rows) ==
    LET years == PresentYears(rows)
    IN [total_titles |-> Len(rows),
        movies |-> Cardinality({i \in 1..Len(rows) : rows[i].type = sMOVIE}),
        tv_shows |-> Cardinality({i \in 1..Len(rows) : rows[i].type = sTVSHOW}),
        earliest_release_year |-> IF years # << >> THEN Some(MinOf(years)) ELSE None,
        latest_release_year |-> IF years # << >> THEN Some(MaxOf(years)) ELSE None]

\* summary() on the loaded rows (the two added-date fields left out)
summary(rows) ==
    LET years == PresentYears(rows)
    IN [total_titles |-> Len(rows),
        movies |-> CountType(rows, sMOVIE),
        tv_shows |-> CountType(rows, sTVSHOW),
        earliest_release_year |-> IF years # << >> THEN Some(MinOf(years)) ELSE None,
        latest_release_year |-> IF years # << >> THEN Some(MaxOf(years)) ELSE None]

\* A Counter / defaultdict(int): the <<key, count>> pairs in insertion order.
\* counter[k] += 1
CounterAdd(counter, k) ==
    IF \E i \in 1..Len(counter) : counter[i][1] = k
    THEN LET at == CHOOSE i \in 1..Len(counter) : counter[i][1] = k
         IN SubSeq(counter, 1, at - 1) \o << <<k, counter[at][2] + 1>> >>
            \o SubSeq(counter, at + 1, Len(counter))
    ELSE Append(counter, <<k, 1>>)

\* The loops below carry the counter as an accumulator; Len(c) >= 0 is always
\* true and makes the evaluator compute c at each iteration, as the loop does.
RECURSIVE CountKeys(_, _)
CountKeys(counter, keys) ==
    IF keys = << >> THEN counter
    ELSE LET c == CounterAdd(counter, Head(keys))
         IN IF Len(c) >= 0 THEN CountKeys(c, Tail(keys)) ELSE c

\* for r in rows: for c in r["countries_list"]: counter[c] += 1
RECURSIVE CountCountries(_, _)
CountCountries(counter, rows) ==
    IF rows = << >> THEN counter
    ELSE LET c == CountKeys(counter, Head(rows).countries_list)
         IN IF Len(c) >= 0 THEN CountCountries(c, Tail(rows)) ELSE c

RECURSIVE CountGenres(_, _)
CountGenres(counter, rows) ==
    IF rows = << >> THEN counter
    ELSE LET c == CountKeys(counter, Head(rows).genres_list)
         IN IF Len(c) >= 0 THEN CountGenres(c, Tail(rows)) ELSE c

\* sorted(items, key=count, reverse=True): stable, equal counts keep their order
InsertDesc(sorted, item) ==
    LET k == Cardinality({i \in 1..Len(sorted) : sorted[i][2] >= item[2]})
    IN SubSeq(sorted, 1, k) \o <<item>> \o SubSeq(sorted, k + 1, Len(sorted))

RECURSIVE SortDesc(_, _)
SortDesc(sorted, items) ==
    IF items = << >> THEN sorted
    ELSE SortDesc(InsertDesc(sorted, Head(items)), Tail(items))

FirstN(s, n) == SubSeq(s, 1, IF n < Len(s) THEN n ELSE Len(s))

\* variant of most_common whose sort puts a later key before its equals
most_commonUnstable(counter, n) ==
    LET InsertBefore(sorted, item) ==
            LET k == Cardinality({i \in 1..Len(sorted) : sorted[i][2] > item[2]})
            IN SubSeq(sorted, 1, k) \o <<item>> \o SubSeq(sorted, k + 1, Len(sorted))
        RECURSIVE Srt(_, _)
        Srt(sorted, items) ==
            IF items = << >> THEN sorted
            ELSE Srt(InsertBefore(sorted, Head(items)), Tail(items))
    IN FirstN(Srt(<< >>, counter), n)

\* Counter.most_common(n)
most_common(counter, n) == FirstN(SortDesc(<< >>, counter), n)

KeyCounts(items) == [i \in 1..Len(items) |-> [key |-> items[i][1], count |-> items[i][2]]]

by_country(rows, top) == KeyCounts(most_common(CountCountries(<< >>, rows), top))
by_genre(rows, top) == KeyCounts(most_common(CountGenres(<< >>, rows), top))

\* the loop of by_year
RECURSIVE CountYears(_, _, _, _)
CountYears(counter, rows, start, end) ==
    IF rows = << >> THEN counter
    ELSE LET y == Head(rows).release_year
             c == IF y = None THEN counter
                  ELSE IF start # None /\ y[1] < start[1] THEN counter
                  ELSE IF end # None /\ y[1] > end[1] THEN counter
                  ELSE CounterAdd(counter, y[1])
         IN IF Len(c) >= 0 THEN CountYears(c, Tail(rows), start, end) ELSE c

\* sorted(counter.keys()), on the pairs
InsertAsc(sorted, item) ==
    LET k == Cardinality({i \in 1..Len(sorted) : sorted[i][1] <= item[1]})
    IN SubSeq(sorted, 1, k) \o <<item>> \o SubSeq(sorted, k + 1, Len(sorted))

RECURSIVE SortAsc(_, _)
SortAsc(sorted, items) ==
    IF items = << >> THEN sorted
    ELSE SortAsc(InsertAsc(sorted, Head(items)), Tail(items))

YearCounts(items) == [i \in 1..Len(items) |-> [year |-> items[i][1], count |-> items[i][2]]]

\* variant of by_year that ignores end
by_yearNoEnd(rows, start, end) ==
    YearCounts(SortAsc(<< >>, CountYears(<< >>, rows, start, None)))

\* by_year(start, end) on the loaded rows
by_year(rows, start, end) ==
    YearCounts(SortAsc(<< >>, CountYears(<< >>, rows, start, end)))

\* the text a row is searched in
Hay(r) == Lower(JoinSpace(<<r.title, r.director, r.cast, r.listed_in, r.description>>))

\* the two "continue" tests of the loop of search: TRUE when the row is kept
TypeKept(r, type) ==
    ~(type # None /\ type[1] # << >> /\ Upper(Strip(r.type)) # Upper(Strip(type[1])))
QueryKept(r, ql) == ~(ql # << >> /\ ~Contains(Hay(r), ql))

\* the dict appended to out
Projection(r) ==
    [show_id |-> r.show_id, title |-> r.title, type |-> r.type,
     country |-> r.country, release_year |-> r.release_year,
     listed_in |-> r.listed_in, description |-> r.description]

\* The loop of search from row i on.  acc.out is the list returned; acc.idx
\* (the index of each returned row) and acc.scanned (the number of rows the
\* loop has examined) are history values.
RECURSIVE SearchLoop(_, _, _, _, _, _)
SearchLoop(rows, ql, type, i, acc, cap) ==
    IF i > Len(rows) THEN acc
    ELSE LET seen == [acc EXCEPT !.scanned = i]
         IN IF ~TypeKept(rows[i], type) THEN SearchLoop(rows, ql, type, i + 1, seen, cap)
            ELSE IF ~QueryKept(rows[i], ql) THEN SearchLoop(rows, ql, type, i + 1, seen, cap)
            ELSE LET next == [seen EXCEPT !.out = Append(@, Projection(rows[i])),
                                          !.idx = Append(@, i)]
                 IN IF Len(next.out) >= cap THEN next
                    ELSE SearchLoop(rows, ql, type, i + 1, next, cap)

\* variant of search that scans every row and cuts the list afterwards
searchFullScan(rows, q, type) ==
    LET all == SearchLoop(rows, Strip(Lower(q)), type, 1,
                          [out |-> << >>, idx |-> << >>, scanned |-> 0], Len(rows) + 1)
    IN [out |-> FirstN(all.out, SearchCap), idx |-> FirstN(all.idx, SearchCap),
        scanned |-> all.scanned]

\* variant of search whose break comes one match late
searchNoBreak(rows, q, type) ==
    SearchLoop(rows, Strip(Lower(q)), type, 1,
               [out |-> << >>, idx |-> << >>, scanned |-> 0], SearchCap + 1)

\* search(q, type) on the loaded rows
search(rows, q, type) ==
    SearchLoop(rows, Strip(Lower(q)), type, 1,
               [out |-> << >>, idx |-> << >>, scanned |-> 0], SearchCap)

\* -------------------------------------------------------------- environment
Threads == {"t1", "t2"}
Errors == {"timeout", "http404"}

Raw(id, ty, ti, di, co, yr, li) ==
    [show_id |-> id, type |-> ty, title |-> ti, director |-> di, cast |-> None,
     country |-> co, release_year |-> yr, listed_in |-> li,
     description |-> Some(<< >>)]

RowS1 == Raw(Some(<<"s","1">>), Some(<<"M","o","v","i","e">>), Some(<<"A","b">>),
             Some(<<"C","d">>), Some(<<"I","N",","," ","U","S">>),
             Some(<<"2","0","2","0">>), Some(<<"D","r">>))
RowS2 == Raw(Some(<<"s","2">>), Some(<<"T","V"," ","S","h","o","w">>), Some(<<"B">>),
             Some(<< >>), Some(<<"U","S">>),
             Some(<<"0">>), Some(<<"D","r",","," ","C","o">>))
RowS3 == Raw(Some(<<"s","3">>), Some(<<" ","m","o","v","i","e"," ">>),
             Some(<<" ","A","b"," ">>), None, Some(<<" ",",","U","S",",",",","I","N"," ">>),
             Some(<<"-","5">>), Some(<<"C","o">>))
RowS4 == Raw(None, None, None, None, None, None, None)
RowS5 == Raw(Some(<<"s","5">>), Some(<<"F","i","l","m">>), Some(<<"d","r">>),
             None, Some(<<"u","s">>), Some(<<"1","9","9","9">>), Some(<<"C","o">>))
RowS6 == Raw(Some(<<"s","6">>), Some(<<"T","V"," ","S","H","O","W">>), Some(<<"D","r">>),
             None, Some(<<"U","S">>), Some(<<"2","0","2","0">>),
             Some(<<"C","o",",","D","r">>))

RowPool == {RowS1, RowS2, RowS3, RowS4, RowS5, RowS6}
LongPool == {RowS1, RowS2, RowS4}
YearAlphabet == {"0", "7", "-", " ", "x"}

SeqsUpTo(S, n) == UNION {[1..k -> S] : k \in 0..n}
Repeat(p, n) == [i \in 1..n |-> p[((i - 1) % Len(p)) + 1]]

YearTexts == {<<Raw(Some(<<"y">>), Some(<<"M","o","v","i","e">>), Some(<<"Y">>), None,
                    None, Some(y), None)>> : y \in SeqsUpTo(YearAlphabet, MaxYearLen)}
MixedTexts == SeqsUpTo(RowPool, MaxRows)
LongTexts == {pre \o Repeat(p, n) : pre \in SeqsUpTo(LongPool, 1),
                                    p \in SeqsUpTo(LongPool, 2) \ {<< >>},
                                    n \in SearchCap..(SearchCap + LongExtra)}
QueryTexts == YearTexts \cup MixedTexts \cup LongTexts

\* the text each url of DATA_URLS serves when it answers
UrlText == <<(<<RowS1>>), (<<RowS1, RowS2>>), (<<RowS3>>)>>
LocalText == <<RowS5, RowS6>>

\* ------------------------------------------------------------- load_dataset
NoRet == None
RetRows(rows) == Some([kind |-> "rows", rows |-> rows, detail |-> None])
RetError(err) == Some([kind |-> "error", rows |-> << >>, detail |-> err])

ThreadVars == <<pc, csv_text, last_err, urlIdx, attempts, usedLocal, ret, calls>>

\* a handler thread enters load_dataset()
Call(t) ==
    /\ pc[t] = "idle"
    /\ calls[t] < MaxCalls
    /\ pc' = [pc EXCEPT ![t] = "check"]
    /\ calls' = [calls EXCEPT ![t] = @ + 1]
    /\ csv_text' = [csv_text EXCEPT ![t] = None]
    /\ last_err' = [last_err EXCEPT ![t] = None]
    /\ urlIdx' = [urlIdx EXCEPT ![t] = 1]
    /\ attempts' = [attempts EXCEPT ![t] = << >>]
    /\ usedLocal' = [usedLocal EXCEPT ![t] = FALSE]
    /\ ret' = [ret EXCEPT ![t] = NoRet]
    /\ UNCHANGED <<cache_rows, localExists, fileText, nAssign, result>>

\* if _cache_rows is not None: return _cache_rows
CheckCache(t) ==
    /\ pc[t] = "check"
    /\ IF cache_rows # None
       THEN /\ ret' = [ret EXCEPT ![t] = RetRows(cache_rows[1])]
            /\ pc' = [pc EXCEPT ![t] = "idle"]
       ELSE /\ pc' = [pc EXCEPT ![t] = "exists"]
            /\ UNCHANGED ret
    /\ UNCHANGED <<cache_rows, localExists, fileText, csv_text, last_err, urlIdx,
                   attempts, usedLocal, calls, nAssign, result>>

\* if os.path.exists(local_path): ... else: last_err = None; for url in DATA_URLS
CheckLocal(t) ==
    /\ pc[t] = "exists"
    /\ IF localExists
       THEN pc' = [pc EXCEPT ![t] = "read"]
       ELSE pc' = [pc EXCEPT ![t] = "fetch"]
    /\ usedLocal' = [usedLocal EXCEPT ![t] = localExists]
    /\ UNCHANGED <<cache_rows, localExists, fileText, csv_text, last_err, urlIdx,
                   attempts, ret, calls, nAssign, result>>

\* with open(local_path) as f: csv_text = f.read()
ReadLocal(t) ==
    /\ pc[t] = "read"
    /\ csv_text' = [csv_text EXCEPT ![t] = Some(fileText)]
    /\ pc' = [pc EXCEPT ![t] = "parse"]
    /\ UNCHANGED <<cache_rows, localExists, fileText, last_err, urlIdx,
                   attempts, usedLocal, ret, calls, nAssign, result>>

Attempt(u, ok, err) == [url |-> u, ok |-> ok, err |-> err]

\* variant of FetchOk without the break
FetchOkNoBreak(t) ==
    /\ pc[t] = "fetch"
    /\ csv_text' = [csv_text EXCEPT ![t] = Some(UrlText[urlIdx[t]])]
    /\ attempts' = [attempts EXCEPT ![t] = Append(@, Attempt(urlIdx[t], TRUE, None))]
    /\ urlIdx' = [urlIdx EXCEPT ![t] = @ + 1]
    /\ pc' = [pc EXCEPT ![t] = IF urlIdx[t] + 1 > NUrls THEN "after" ELSE "fetch"]
    /\ UNCHANGED <<cache_rows, localExists, fileText, last_err,
                   usedLocal, ret, calls, nAssign, result>>

\* one iteration of the for loop whose request succeeds: csv_text = resp.text; break
FetchOk(t) ==
    /\ pc[t] = "fetch"
    /\ csv_text' = [csv_text EXCEPT ![t] = Some(UrlText[urlIdx[t]])]
    /\ attempts' = [attempts EXCEPT ![t] = Append(@, Attempt(urlIdx[t], TRUE, None))]
    /\ pc' = [pc EXCEPT ![t] = "after"]
    /\ UNCHANGED <<cache_rows, localExists, fileText, last_err, urlIdx,
                   usedLocal, ret, calls, nAssign, result>>

\* variant of FetchFail that keeps the first error
FetchFailKeepFirst(t) ==
    /\ pc[t] = "fetch"
    /\ \E e \in Errors :
          /\ last_err' = [last_err EXCEPT ![t] = IF @ = None THEN Some(e) ELSE @]
          /\ attempts' = [attempts EXCEPT ![t] =
                             Append(@, Attempt(urlIdx[t], FALSE, Some(e)))]
    /\ urlIdx' = [urlIdx EXCEPT ![t] = @ + 1]
    /\ pc' = [pc EXCEPT ![t] = IF urlIdx[t] + 1 > NUrls THEN "after" ELSE "fetch"]
    /\ UNCHANGED <<cache_rows, localExists, fileText, csv_text,
                   usedLocal, ret, calls, nAssign, result>>

\* one iteration whose request raises: except Exception as e: last_err = e
FetchFail(t) ==
    /\ pc[t] = "fetch"
    /\ \E e \in Errors :
          /\ last_err' = [last_err EXCEPT ![t] = Some(e)]
          /\ attempts' = [attempts EXCEPT ![t] =
                             Append(@, Attempt(urlIdx[t], FALSE, Some(e)))]
    /\ urlIdx' = [urlIdx EXCEPT ![t] = @ + 1]
    /\ pc' = [pc EXCEPT ![t] = IF urlIdx[t] + 1 > NUrls THEN "after" ELSE "fetch"]
    /\ UNCHANGED <<cache_rows, localExists, fileText, csv_text,
                   usedLocal, ret, calls, nAssign, result>>

\* if csv_text is None: raise HTTPException(500, f"Could not load dataset: {last_err}")
AfterLoop(t) ==
    /\ pc[t] = "after"
    /\ IF csv_text[t] = None
       THEN /\ ret' = [ret EXCEPT ![t] = RetError(last_err[t])]
            /\ pc' = [pc EXCEPT ![t] = "idle"]
       ELSE /\ pc' = [pc EXCEPT ![t] = "parse"]
            /\ UNCHANGED ret
    /\ UNCHANGED <<cache_rows, localExists, fileText, csv_text, last_err, urlIdx,
                   attempts, usedLocal, calls, nAssign, result>>

\* rows = [...]; _cache_rows = rows; return rows
ParseAssign(t) ==
    /\ pc[t] = "parse"
    /\ cache_rows' = Some(ParseRows(csv_text[t][1]))
    /\ nAssign' = nAssign + 1
    /\ ret' = [ret EXCEPT ![t] = RetRows(ParseRows(csv_text[t][1]))]
    /\ pc' = [pc EXCEPT ![t] = "idle"]
    /\ UNCHANGED <<localExists, fileText, csv_text, last_err, urlIdx,
                   attempts, usedLocal, calls, result>>

NoResult == [op |-> "none", a1 |-> None, a2 |-> None, val |-> None]

ThreadsInit ==
    /\ pc = [t \in Threads |-> "idle"]
    /\ csv_text = [t \in Threads |-> None]
    /\ last_err = [t \in Threads |-> None]
    /\ urlIdx = [t \in Threads |-> 1]
    /\ attempts = [t \in Threads |-> << >>]
    /\ usedLocal = [t \in Threads |-> FALSE]
    /\ ret = [t \in Threads |-> NoRet]
    /\ calls = [t \in Threads |-> 0]

Init ==
    /\ cache_rows = None
    /\ localExists \in BOOLEAN
    /\ fileText = LocalText
    /\ nAssign = 0
    /\ result = NoResult
    /\ ThreadsInit

Next ==
    \E t \in Threads :
        \/ Call(t)
        \/ CheckCache(t)
        \/ CheckLocal(t)
        \/ ReadLocal(t)
        \/ FetchOk(t)
        \/ FetchFail(t)
        \/ AfterLoop(t)
        \/ ParseAssign(t)

\* concurrent handler threads inside load_dataset
Spec == Init /\ [][Next]_vars

\* ---------------------------------------------------------- query handlers
\* The handlers below run one at a time, with the local file present: the
\* whole of a handler, its call of load_dataset() included, is one step.
\* A behaviour serves one request on the empty cache, or a summary request
\* that fills the cache followed by one request answered from the cache.

\* what load_dataset() returns to a handler that runs alone
LoadedRows == IF cache_rows # None THEN cache_rows[1] ELSE ParseRows(fileText)

\* the effect of that call of load_dataset() on the process
LoadEffect ==
    /\ IF cache_rows = None THEN localExists ELSE TRUE
    /\ result.op \in {"none", "summary"}
    /\ cache_rows' = Some(LoadedRows)
    /\ nAssign' = IF cache_rows = None THEN nAssign + 1 ELSE nAssign
    /\ UNCHANGED <<localExists, fileText, ThreadVars>>

TopArgs == {0, 1, 2, 3, CountryTopMax, CountryTopMax + 1, GenreTopMax, GenreTopMax + 1}
YearArgs == {None, Some(0), Some(1999), Some(2020)}
QueryArgs == {<< >>, <<"d","r">>, <<" ","D","R"," ">>, <<"b"," ","c">>, <<"z","z">>}
TypeArgs == {None, Some(<< >>), Some(<<"m","o","v","i","e">>),
             Some(<<" ","M","O","V","I","E"," ">>),
             Some(<<"t","v"," ","s","h","o","w">>), Some(<<" ">>)}

\* GET /api/netflix/summary
Summary ==
    /\ LoadEffect
    /\ result' = [op |-> "summary", a1 |-> None, a2 |-> None,
                  val |-> summary(LoadedRows)]

\* GET /api/netflix/by-country?top=, top: Query(10, ge=1, le=50)
ByCountry ==
    \E top \in TopArgs :
        /\ top >= 1 /\ top <= CountryTopMax
        /\ LoadEffect
        /\ result' = [op |-> "by_country", a1 |-> Some(top), a2 |-> None,
                      val |-> by_country(LoadedRows, top)]

\* GET /api/netflix/by-genre?top=, top: Query(15, ge=1, le=100)
ByGenre ==
    \E top \in TopArgs :
        /\ top >= 1 /\ top <= GenreTopMax
        /\ LoadEffect
        /\ result' = [op |-> "by_genre", a1 |-> Some(top), a2 |-> None,
                      val |-> by_genre(LoadedRows, top)]

\* GET /api/netflix/by-year?start=&end=
ByYear ==
    \E start \in YearArgs, end \in YearArgs :
        /\ LoadEffect
        /\ result' = [op |-> "by_year", a1 |-> start, a2 |-> end,
                      val |-> by_year(LoadedRows, start, end)]

\* GET /api/netflix/search?q=&type=
Search ==
    \E q \in QueryArgs, type \in TypeArgs :
        /\ LoadEffect
        /\ result' = [op |-> "search", a1 |-> q, a2 |-> type,
                      val |-> search(LoadedRows, q, type)]

QueryInit ==
    /\ cache_rows = None
    /\ localExists = TRUE
    /\ fileText \in QueryTexts
    /\ nAssign = 0
    /\ result = NoResult
    /\ ThreadsInit

QueryNext == Summary \/ ByCountry \/ ByGenre \/ ByYear \/ Search

\* the query handlers over every dataset of QueryTexts
QuerySpec == QueryInit /\ [][QueryNext]_vars

\* =================================================================== claims
Populating(t) == pc[t] \in {"exists", "read", "fetch", "after", "parse"}
Finished(t) == pc[t] = "idle" /\ ret[t] # NoRet
Failed(t) == Finished(t) /\ ret[t][1].kind = "error"

\* C1: concurrent first loads are serialized: no two callers are past the
\* "cache is empty" check at the same time, and the cache is assigned at most
\* once.
C1_LoadsSerialized ==
    /\ \A t1, t2 \in Threads : t1 # t2 => ~(Populating(t1) /\ Populating(t2))
    /\ nAssign <= 1

\* C2: once populated, the cache is never reassigned: no step changes a
\* populated cache.
C2_CacheNeverReassigned == [][cache_rows # None => cache_rows' = cache_rows]_vars

\* a finished load has failed exactly when the local path was absent and every
\* url was tried and failed; the error then carries the failure of the last url
C3_FailureShape ==
    \A t \in Threads :
        Finished(t) =>
            /\ ret[t][1].kind \in {"rows", "error"}
            /\ ret[t][1].kind = "error" <=>
                  /\ ~usedLocal[t] /\ ~localExists
                  /\ Len(attempts[t]) = NUrls
                  /\ \A i \in 1..NUrls : ~attempts[t][i].ok /\ attempts[t][i].url = i
            /\ ret[t][1].kind = "error" => ret[t][1].detail = attempts[t][NUrls].err

\* the step that raises leaves the cache as it was
C3_RaiseKeepsCache ==
    \A t \in Threads :
        (pc[t] = "after" /\ pc'[t] = "idle") => cache_rows' = cache_rows

C4_SourceOrder ==
    \A t \in Threads :
        /\ usedLocal[t] => attempts[t] = << >>
        /\ attempts[t] # << >> => ~localExists
        /\ Len(attempts[t]) <= NUrls
        /\ \A i \in 1..Len(attempts[t]) :
              /\ attempts[t][i].url = i
              /\ i < Len(attempts[t]) => ~attempts[t][i].ok
        /\ pc[t] = "parse" => csv_text[t] # None
        /\ csv_text[t] # None =>
              \/ usedLocal[t] /\ csv_text[t] = Some(fileText)
              \/ /\ attempts[t] # << >>
                 /\ attempts[t][Len(attempts[t])].ok
                 /\ csv_text[t] = Some(UrlText[Len(attempts[t])])
        /\ (Finished(t) /\ ret[t][1].kind = "rows" /\ attempts[t] # << >>) =>
              ret[t][1].rows = ParseRows(UrlText[Len(attempts[t])])

C4_Witness ==
    \E t \in Threads :
        /\ Finished(t) /\ ret[t][1].kind = "rows"
        /\ Len(attempts[t]) = 2
        /\ ~attempts[t][1].ok /\ attempts[t][2].ok

\* the cached rows, when a handler has run
Rows == cache_rows[1]

\* C5 (as claimed): every cached release_year is a positive integer or absent.
C5_ReleaseYearPositive ==
    cache_rows # None =>
        \A i \in 1..Len(Rows) :
            Rows[i].release_year = None \/ Rows[i].release_year[1] > 0

\* C5 (amended): every cached release_year is a non-zero integer or absent,
\* never zero.
C5_ReleaseYearNeverZero ==
    cache_rows # None =>
        \A i \in 1..Len(Rows) :
            Rows[i].release_year = None \/ Rows[i].release_year[1] # 0

C5_Witness ==
    /\ cache_rows # None
    /\ \E i, j \in 1..Len(Rows) :
          /\ fileText[i].release_year = Some(<<"0">>)
          /\ Rows[i].release_year = None
          /\ fileText[j].release_year = Some(<<"-","5">>)
          /\ Rows[j].release_year = Some(0 - 5)

\* the lists by_country / by_genre count, one per row
GroupLists == [i \in 1..Len(Rows) |->
                  IF result.op = "by_country" THEN Rows[i].countries_list
                  ELSE Rows[i].genres_list]
\* the <<row, position>> places where key k stands, in dataset order
Places(k) == {p \in UNION {{<<i, j>> : j \in 1..Len(GroupLists[i])} :
                                       i \in 1..Len(Rows)} :
                 GroupLists[p[1]][p[2]] = k}
Before(p, q) == p[1] < q[1] \/ (p[1] = q[1] /\ p[2] < q[2])
FirstPlace(k) == CHOOSE p \in Places(k) : \A q \in Places(k) : q = p \/ Before(p, q)

\* C6: by_country / by_genre return at most top entries, each with the number
\* of occurrences of its key, ordered by descending count and, among equal
\* counts, by which key was met first in dataset order.
C6_GroupedCounts ==
    result.op \in {"by_country", "by_genre"} =>
        LET out == result.val
        IN /\ Len(out) <= result.a1[1]
           /\ \A i \in 1..Len(out) : out[i].count = Cardinality(Places(out[i].key))
           /\ \A i, j \in 1..Len(out) :
                 i < j =>
                    \/ out[i].count > out[j].count
                    \/ /\ out[i].count = out[j].count
                       /\ Before(FirstPlace(out[i].key), FirstPlace(out[j].key))

C6_Witness ==
    /\ result.op = "by_country"
    /\ result.a1 = Some(2)
    /\ Len(result.val) = 2
    /\ result.val[1].count = result.val[2].count
    /\ \E i \in 1..Len(Rows) : \E j \in 1..Len(GroupLists[i]) :
          GroupLists[i][j] \notin {result.val[1].key, result.val[2].key}

\* C7: by_year returns strictly ascending years, each with a count > 0 equal
\* to the number of rows of that release_year, none outside [start, end].
C7_ByYear ==
    result.op = "by_year" =>
        LET out == result.val
        IN /\ \A i \in 1..Len(out) :
                 /\ out[i].count > 0
                 /\ out[i].count = Cardinality({r \in 1..Len(Rows) :
                                       Rows[r].release_year = Some(out[i].year)})
                 /\ result.a1 # None => out[i].year >= result.a1[1]
                 /\ result.a2 # None => out[i].year <= result.a2[1]
           /\ \A i, j \in 1..Len(out) : i < j => out[i].year < out[j].year

C7_Witness ==
    /\ result.op = "by_year"
    /\ result.a1 = Some(1999) /\ result.a2 = Some(2020)
    /\ Len(result.val) = 2
    /\ Len(Rows) = 3
    /\ Rows[1].release_year = Some(2020)
    /\ Rows[2].release_year = Some(0 - 5)
    /\ Rows[3].release_year = Some(1999)

\* the row a returned entry was made from
Returned(k) == Rows[result.val.idx[k]]
Fields(r) == JoinSpace(<<r.title, r.director, r.cast, r.listed_in, r.description>>)
TypeGiven == result.a2 # None /\ result.a2[1] # << >>

\* C8 (as claimed): search returns at most 25 entries; the kind of each equals
\* kind_filter case-insensitively when it is given, and its concatenated text
\* fields contain the query case-insensitively when it is given.
C8_SearchLiteral ==
    result.op = "search" =>
        LET out == result.val.out
        IN /\ Len(out) <= SearchCap
           /\ \A k \in 1..Len(out) :
                 /\ TypeGiven => Lower(out[k].type) = Lower(result.a2[1])
                 /\ result.a1 # << >> =>
                       Contains(Lower(Fields(Returned(k))), Lower(result.a1))

\* C8 (amended): the same with kind_filter and the query stripped of
\* surrounding whitespace before they are compared.
C8_SearchStripped ==
    result.op = "search" =>
        LET out == result.val.out
        IN /\ Len(out) <= SearchCap
           /\ Len(result.val.idx) = Len(out)
           /\ \A k \in 1..Len(out) :
                 /\ out[k] = Projection(Returned(k))
                 /\ TypeGiven => Lower(out[k].type) = Lower(Strip(result.a2[1]))
                 /\ Strip(result.a1) # << >> =>
                       Contains(Lower(Fields(Returned(k))), Lower(Strip(result.a1)))

C8_Witness ==
    /\ result.op = "search"
    /\ result.a1 = <<" ","D","R"," ">>
    /\ result.a2 = Some(<<" ","M","O","V","I","E"," ">>)
    /\ Len(result.val.out) = SearchCap
    /\ Len(Rows) > SearchCap

sMovieLower == <<"m","o","v","i","e">>
sTvShowLower == <<"t","v"," ","s","h","o","w">>
YearSet == {Rows[i].release_year[1] : i \in {j \in 1..Len(Rows) : Rows[j].release_year # None}}

\* C9: summary returns the number of rows, the numbers of rows whose kind is
\* "movie" / "tv show" in any letter case, and the least and greatest present
\* release_year, absent when no row has one.
C9_Summary ==
    result.op = "summary" =>
        LET v == result.val
        IN /\ v.total_titles = Len(Rows)
           /\ v.movies = Cardinality({i \in 1..Len(Rows) : Lower(Rows[i].type) = sMovieLower})
           /\ v.tv_shows = Cardinality({i \in 1..Len(Rows) : Lower(Rows[i].type) = sTvShowLower})
           /\ v.movies + v.tv_shows <= v.total_titles
           /\ YearSet = {} => v.earliest_release_year = None /\ v.latest_release_year = None
           /\ YearSet # {} =>
                 /\ v.earliest_release_year # None /\ v.latest_release_year # None
                 /\ v.earliest_release_year[1] \in YearSet
                 /\ v.latest_release_year[1] \in YearSet
                 /\ \A y \in YearSet : v.earliest_release_year[1] <= y
                                       /\ y <= v.latest_release_year[1]

C9_Witness ==
    /\ result.op = "summary"
    /\ result.val.movies = 1 /\ result.val.tv_shows = 1
    /\ result.val.total_titles = 3
    /\ result.val.earliest_release_year = Some(1999)
    /\ result.val.latest_release_year = Some(2020)
    /\ \E i \in 1..Len(Rows) : Rows[i].release_year = None

\* the rows that satisfy both filters of the last search
Matching ==
    {i \in 1..Len(Rows) :
        /\ TypeGiven => Upper(Strip(Rows[i].type)) = Upper(Strip(result.a2[1]))
        /\ Strip(Lower(result.a1)) # << >> =>
              Contains(Lower(Fields(Rows[i])), Strip(Lower(result.a1)))}
Rank(i) == Cardinality({j \in Matching : j <= i})

\* C10: search returns exactly the first min(25, m) of the m matching rows, in
\* dataset order, and examines no row after the one that gives the 25th match.
C10_SearchPrefix ==
    result.op = "search" =>
        LET v == result.val
            n == IF Cardinality(Matching) < SearchCap
                 THEN Cardinality(Matching) ELSE SearchCap
        IN /\ Len(v.out) = n /\ Len(v.idx) = n
           /\ \A k \in 1..n : /\ v.idx[k] \in Matching
                              /\ Rank(v.idx[k]) = k
                              /\ v.out[k] = Projection(Rows[v.idx[k]])
           /\ v.scanned = IF Cardinality(Matching) >= SearchCap
                          THEN v.idx[SearchCap] ELSE Len(Rows)

C10_Witness ==
    /\ result.op = "search"
    /\ TypeGiven
    /\ Len(result.val.out) = SearchCap
    /\ result.val.idx[1] > 1
    /\ result.val.scanned < Len(Rows)
    /\ Cardinality(Matching) > SearchCap

====
